---- MODULE Spec2Model ----
(***************************************************************************)
(* Job ingestion, scoring and digest pipeline of timme99/jobagent.         *)
(*                                                                         *)
(*   SpecRetry  : withRetry (geminiService.ts)                             *)
(*   SpecScan   : handleScan (App.tsx), the source adapters, scoreJobMatch *)
(*                and saveJobMatches against the job_matches table         *)
(*   SpecNorm   : normalizeScore (send-digest edge function)               *)
(*   SpecDigest : serve and sendDigestForUser (send-digest edge function)  *)
(***************************************************************************)
EXTENDS Integers, Sequences, FiniteSets, TLC

(***************************************************************************)
(* Bounds of the model.                                                    *)
(***************************************************************************)
\* largest maxRetries argument explored (callers use the default)
MaxAttempts == 4
\* most postings one source adapter returns in one scan
MaxJobs == 1
\* distinct upstream posting ids per source
MaxIds == 1
\* ids Math.random() hands out over the whole run
MaxRand == 2
\* scans started over the whole run
MaxScans == 2
\* largest raw score handed to normalizeScore, in whole points
MaxRawScore == 101
\* rows of job_matches a digest run starts with
MaxRows == 2
\* digest requests over the whole run
MaxDigests == 1
\* invocations of the function by the scheduler
MaxCronRuns == 2
\* advances of the clock
MaxTicks == 2
\* rows of job_matches a user has when the size of the query answer matters
MaxStored == 22
\* invocations of the function that run at the same time
MaxOverlap == 2

(***************************************************************************)
(* Program constants.                                                      *)
(***************************************************************************)
DefaultMaxRetries == 3
BaseDelayMs == 2000
RateLimitStatus == 429
\* 24 * 60 * 60 * 1000 ms, in hours
Day == 24
\* .limit(20)
QueryLimit == 20
\* body.threshold ?? settings.match_threshold ?? 80
DefaultThreshold == 80

VARIABLES
    \* ---- withRetry ----
    maxRetries,     \* the maxRetries argument
    retryPc,        \* "loop" | "sleeping" | "returned" | "thrown"
    retryI,         \* the loop variable i
    lastError,      \* the local lastError (NoError = undefined)
    retryLog,       \* history: every invocation of fn and every sleep, in order
    retryResult,    \* the value returned (NoValue until then)
    retryThrown,    \* the failure thrown to the caller (NoError until then)
    \* ---- the store ----
    job_matches,    \* table public.job_matches: id -> row (NoRow = no such row)
    now,            \* the clock
    \* ---- handleScan ----
    scanPc,         \* "idle" | "fetching" | "loop" | "scoring" | "delay" |
                    \* "saving" | "saved" | "empty" | "failed"
    scanUser,       \* userId of the signed-in user who scans
    scanCount,      \* scans started so far
    adapterOut,     \* per adapter: its promise ("pending", "resolved", "rejected")
    completionOrder,\* the adapters in the order their promises settled
    allJobs,        \* the merged candidate sequence
    scanI,          \* the loop variable i (1-based)
    scoredResults,  \* the local scoredResults
    inFlight,       \* indices of allJobs whose scoreJobMatch call is in flight
    scoreLog,       \* history: start and end of every scoreJobMatch call
    saveInvoked,    \* saveJobMatches was called by this scan
    storeAtStart,   \* history: job_matches when this scan started
    failedIn,       \* where the scan failed: "score" | "save" ("" = not failed)
    randCount,      \* ids handed out by Math.random() so far
    lastSaved,      \* history: the most recent scan that was persisted
    prevSaved,      \* history: the persisted scan before that
    \* ---- normalizeScore ----
    normPc,         \* "input" | "once" | "twice"
    normRaw,        \* the argument raw, in thousandths
    normOnce,       \* normalizeScore(raw)
    normTwice,      \* normalizeScore(normalizeScore(raw))
    \* ---- send-digest ----
    user_settings,  \* table public.user_settings: user_id -> row
    dgPc,           \* "idle" | "settings" | "query" | "send" | "stamp" | "done"
    dgCount,        \* digest requests so far
    dgReq,          \* the request: caller, user and body
    dgSettings,     \* the local settings
    dgRecipient,    \* recipientEmail
    dgThreshold,    \* effectiveThreshold
    dgSince,        \* since (Null in test mode)
    dgSinceAt,      \* history: the clock when since was computed
    dgFetched,      \* normalized: the fetched rows with normalized scores
    dgMatches,      \* matches: what goes into the email
    dgUsedMock,     \* usedMockData
    dgStamp,        \* the timestamp sent as last_digest_sent_at
    dgResponse,     \* the { status, data } returned
    dgFailed,       \* history: the store accesses of this digest that failed
    outbox,         \* history: the emails Resend accepted
    \* ---- send-digest: processAllUsers ----
    bcPc,           \* "idle" | "load" | "loop" | "await" | "done"
    bcCheck,        \* isDiagnostic of the broadcast
    bcNow,          \* the local now
    bcQueue,        \* the rows of allSettings not yet visited
    bcResults,      \* results
    bcResponse,     \* the response of serve: status and results
    bcLog,          \* history: the users sendDigestForUser was called for
    \* ---- App: the match lists of each signed-in user ----
    uiMatches,      \* per user: the ids in the state matches
    uiShortlist,    \* per user: the ids in the state shortlistedJobs
    lastOp,         \* history: who wrote to job_matches last, and the result
    ticks,          \* how often the clock has advanced
    \* ---- send-digest: invocations that overlap ----
    ovPc,           \* per invocation: "idle" | "stamp" | "done"
    ovStamp         \* per invocation: the timestamp it sends

retryVars == <<maxRetries, retryPc, retryI, lastError, retryLog, retryResult, retryThrown>>
storeVars == <<job_matches, now>>
scanVars == <<scanPc, scanUser, scanCount, adapterOut, completionOrder, allJobs, scanI,
              scoredResults, inFlight, scoreLog, saveInvoked, storeAtStart, failedIn,
              randCount, lastSaved, prevSaved>>

normVars == <<normPc, normRaw, normOnce, normTwice>>
bcVars == <<bcPc, bcCheck, bcNow, bcQueue, bcResults, bcResponse, bcLog>>
digestVars == <<user_settings, dgPc, dgCount, dgReq, dgSettings, dgRecipient, dgThreshold,
                dgSince, dgSinceAt, dgFetched, dgMatches, dgUsedMock, dgStamp,
                dgResponse, dgFailed, outbox, bcVars>>

uiVars == <<uiMatches, uiShortlist, lastOp, ticks>>
ovVars == <<ovPc, ovStamp>>

vars == <<retryVars, storeVars, scanVars, normVars, digestVars, uiVars, ovVars>>

\* what the actions of one component leave alone
retryFrame == <<storeVars, scanVars, normVars, digestVars, uiVars, ovVars>>
scanFrame == <<retryVars, normVars, digestVars, uiVars, ovVars>>
normFrame == <<retryVars, storeVars, scanVars, digestVars, uiVars, ovVars>>
digestFrame == <<retryVars, storeVars, scanVars, normVars, uiVars, ovVars>>
uiFrame == <<retryVars, scanVars, normVars, ovVars>>

(***************************************************************************)
(* withRetry                                                               *)
(***************************************************************************)
NoError == [kind |-> "none", message429 |-> FALSE, status |-> 0, at |-> 0]
NoValue == [kind |-> "none", at |-> 0]

\* The failures fn can raise at its n-th invocation: a message that contains
\* '429', a status field equal to 429, both, or neither (any other failure).
Failures(n) ==
    { [kind |-> "error", message429 |-> m, status |-> s, at |-> n] :
        m \in BOOLEAN, s \in {0, RateLimitStatus, 500} }

\* What the n-th invocation of fn can do: resolve with a value or reject.
Outcomes(n) == { [kind |-> "value", at |-> n] } \cup Failures(n)

RECURSIVE Pow(_, _)
Pow(b, e) == IF e = 0 THEN 1 ELSE b * Pow(b, e - 1)

\* error?.message?.includes('429') || error?.status === 429
IsRateLimitAlways(error) == TRUE
IsRateLimit(error) == error.message429 \/ error.status = RateLimitStatus

\* Math.pow(2, i) * 2000
DelayShifted(i) == Pow(2, i + 1) * BaseDelayMs
Delay(i) == Pow(2, i) * BaseDelayMs

\* i < maxRetries - 1
AttemptsRemainOffByOne(i, max) == i < max
AttemptsRemain(i, max) == i < max - 1

CallEntry(o) == [ev |-> "call", out |-> o, ms |-> 0]
SleepEntry(d) == [ev |-> "sleep", out |-> NoValue, ms |-> d]

Calls(log) == SelectSeq(log, LAMBDA e : e.ev = "call")
Sleeps(log) == SelectSeq(log, LAMBDA e : e.ev = "sleep")

RetryStart ==
    /\ maxRetries \in 0..MaxAttempts
    /\ retryPc = "loop"
    /\ retryI = 0
    /\ lastError = NoError
    /\ retryLog = <<>>
    /\ retryResult = NoValue
    /\ retryThrown = NoError

\* One pass of the loop body: await fn(); return its value, or catch its
\* failure and either start the backoff sleep or rethrow.
RetryAttempt ==
    /\ retryPc = "loop"
    /\ retryI < maxRetries
    /\ \E o \in Outcomes(Len(Calls(retryLog)) + 1) :
         IF o.kind = "value"
         THEN /\ retryPc' = "returned"
              /\ retryResult' = o
              /\ retryLog' = Append(retryLog, CallEntry(o))
              /\ UNCHANGED <<lastError, retryThrown, retryI>>
         ELSE /\ lastError' = o
              /\ IF IsRateLimit(o) /\ AttemptsRemain(retryI, maxRetries)
                 THEN /\ retryPc' = "sleeping"
                      /\ retryLog' = retryLog \o <<CallEntry(o), SleepEntry(Delay(retryI))>>
                      /\ UNCHANGED retryThrown
                 ELSE /\ retryPc' = "thrown"
                      /\ retryThrown' = o
                      /\ retryLog' = Append(retryLog, CallEntry(o))
              /\ UNCHANGED <<retryResult, retryI>>
    /\ UNCHANGED <<maxRetries, retryFrame>>

\* The timer of the backoff sleep fires: continue with i + 1.
RetryWake ==
    /\ retryPc = "sleeping"
    /\ retryPc' = "loop"
    /\ retryI' = retryI + 1
    /\ UNCHANGED <<maxRetries, lastError, retryLog, retryResult, retryThrown>>
    /\ UNCHANGED retryFrame

\* The loop ran out (i = maxRetries): throw lastError.
RetryExhausted ==
    /\ retryPc = "loop"
    /\ retryI >= maxRetries
    /\ retryPc' = "thrown"
    /\ retryThrown' = lastError
    /\ UNCHANGED <<maxRetries, retryI, lastError, retryLog, retryResult>>
    /\ UNCHANGED retryFrame

RetryNext == RetryAttempt \/ RetryWake \/ RetryExhausted

(***************************************************************************)
(* normalizeScore                                                          *)
(***************************************************************************)
\* Numbers are counted in thousandths: 0.85 is 850, 85 is 85000.
\* Math.round(x) for x = n / d (d > 0): floor(x + 1/2)
MathRound(n, d) == (2 * n + d) \div (2 * d)

\* if (raw <= 1.5) return Math.round(raw * 100); return Math.round(raw);
NormalizeScoreCutAtOne(raw) ==
    IF raw <= 1000 THEN MathRound(raw * 100, 1000) ELSE MathRound(raw, 1000)
NormalizeScore(raw) ==
    IF raw <= 1500 THEN MathRound(raw * 100, 1000) ELSE MathRound(raw, 1000)

NormIdle ==
    /\ normPc = "idle"
    /\ normRaw = 0
    /\ normOnce = 0
    /\ normTwice = 0

NormStart ==
    /\ normPc = "input"
    /\ normRaw \in 0..(MaxRawScore * 1000)
    /\ normOnce = 0
    /\ normTwice = 0

NormalizeOnce ==
    /\ normPc = "input"
    /\ normOnce' = NormalizeScore(normRaw)
    /\ normPc' = "once"
    /\ UNCHANGED <<normRaw, normTwice, normFrame>>

\* the result, a whole number of points, is normalized again
NormalizeTwice ==
    /\ normPc = "once"
    /\ normTwice' = NormalizeScore(normOnce * 1000)
    /\ normPc' = "twice"
    /\ UNCHANGED <<normRaw, normOnce, normFrame>>

NormNext == NormalizeOnce \/ NormalizeTwice

\* withRetry not in use
RetryIdle ==
    /\ maxRetries = DefaultMaxRetries
    /\ retryPc = "idle"
    /\ retryI = 0
    /\ lastError = NoError
    /\ retryLog = <<>>
    /\ retryResult = NoValue
    /\ retryThrown = NoError

(***************************************************************************)
(* The store: table public.job_matches behind row-level security.          *)
(***************************************************************************)
Users == {"u1", "u2"}

Adapters == <<"fetchLiveJobs", "fetchArbeitsagenturJobs", "fetchJSearchJobs">>
AdapterSet == {Adapters[k] : k \in 1..Len(Adapters)}

\* A posting id is a pair <<namespace, n>>; NoId is a missing or empty id.
NoId == <<"", 0>>
Prefix(a) ==
    CASE a = "fetchLiveJobs" -> "li"
      [] a = "fetchArbeitsagenturJobs" -> "aa"
      [] a = "fetchJSearchJobs" -> "js"
\* Math.random().toString(36).substr(2, 9)
RandomId(n) == <<"rnd", n>>
AllIds ==
    {<<Prefix(a), n>> : a \in AdapterSet, n \in 1..MaxIds}
        \cup {RandomId(n) : n \in 1..MaxRand}

NoRow == [user_id |-> "none", score |-> 0, status |-> "none", created_at |-> 0]

\* null / undefined
Null == 0 - 1

\* the clock when the digest runs start
StartTime == Day + 6

NoSettingsRow ==
    [exists |-> FALSE, digest_email |-> "", match_threshold |-> Null,
     last_digest_sent_at |-> Null, automation_enabled |-> FALSE, timezone |-> ""]
\* settings = data ?? {}
EmptySettings == NoSettingsRow

\* no store operation yet
NoOp == [userId |-> "none", result |-> ""]

UiIdle ==
    /\ uiMatches = [u \in Users |-> {}]
    /\ uiShortlist = [u \in Users |-> {}]
    /\ lastOp = NoOp
    /\ ticks = 0

StoreEmpty ==
    /\ job_matches = [id \in AllIds |-> NoRow]
    /\ now = 0
    /\ user_settings = [u \in Users |-> NoSettingsRow]
    /\ UiIdle

StoredIds(store) == {id \in AllIds : store[id] # NoRow}

\* a row of the batch has the id of a stored row of another user
OwnedByOther(store, userId, rows) ==
    \E k \in 1..Len(rows) :
        store[rows[k].id] # NoRow /\ store[rows[k].id].user_id # userId

\* The statement is rejected as a whole: two rows of the batch carry the same
\* primary key, or a row's id exists and belongs to another user (policy
\* "Users can update own matches").
UpsertRejected(store, userId, rows) ==
    \/ \E k, l \in 1..Len(rows) : k # l /\ rows[k].id = rows[l].id
    \/ \E k \in 1..Len(rows) :
          store[rows[k].id] # NoRow /\ store[rows[k].id].user_id # userId

\* upsert(rows, { onConflict: 'id' }): insert, or overwrite the columns sent.
\* created_at is not sent: DEFAULT now() on insert, kept on conflict.
Upsert(store, userId, rows, t) ==
    [id \in AllIds |->
        IF \E k \in 1..Len(rows) : rows[k].id = id
        THEN LET r == rows[CHOOSE k \in 1..Len(rows) : rows[k].id = id]
             IN  [user_id |-> userId,
                  score |-> r.score,
                  status |-> "pending",
                  created_at |-> IF store[id] = NoRow THEN t ELSE store[id].created_at]
        ELSE store[id]]

\* .filter((m) => m.title && m.company)
SaveRowsDropsIfBothMissing(matches) == SelectSeq(matches, LAMBDA m : m.title \/ m.company)
SaveRows(matches) == SelectSeq(matches, LAMBDA m : m.title /\ m.company)

(***************************************************************************)
(* Source adapters.                                                        *)
(***************************************************************************)
SeqsUpTo(S, n) == UNION {[1..k -> S] : k \in 0..n}

\* What the upstream of an adapter can do in one scan.  ids: the ids of the
\* postings it returns (the LLM-grounded search may leave an id out).
UpstreamIds(a) ==
    {<<Prefix(a), n>> : n \in 1..MaxIds}
        \cup (IF a = "fetchLiveJobs" THEN {NoId} ELSE {})
Upstreams(a) ==
    {[kind |-> k, ids |-> <<>>] :
        k \in {"network_error", "http_error", "bad_body"}
                \cup (IF a = "fetchJSearchJobs" THEN {"no_api_key"} ELSE {})}
        \cup {[kind |-> "ok", ids |-> s] : s \in SeqsUpTo(UpstreamIds(a), MaxJobs)}

SourceTag(a) ==
    CASE a = "fetchLiveJobs" -> ""
      [] a = "fetchArbeitsagenturJobs" -> "arbeitsagentur"
      [] a = "fetchJSearchJobs" -> "jsearch"

Rejected == [state |-> "rejected", jobs |-> <<>>]
Resolved(jobs) == [state |-> "resolved", jobs |-> jobs]
Pending == [state |-> "pending", jobs |-> <<>>]

MapJobs(a, ids) == [k \in 1..Len(ids) |-> [id |-> ids[k], source |-> SourceTag(a)]]

\* fetchArbeitsagenturJobs / fetchJSearchJobs: a thrown fetch or res.json()
\* rejects, a non-OK response (or a missing API key) resolves to [].
FetchApiJobs(a, up) ==
    CASE up.kind \in {"network_error", "bad_body"} -> Rejected
      [] up.kind \in {"http_error", "no_api_key"} -> Resolved(<<>>)
      [] up.kind = "ok" -> Resolved(MapJobs(a, up.ids))

\* fetchLiveJobs: a failed generateContent (after withRetry) rejects, an
\* unparseable response text resolves to [].
FetchLiveJobs(up) ==
    CASE up.kind \in {"network_error", "http_error"} -> Rejected
      [] up.kind = "bad_body" -> Resolved(<<>>)
      [] up.kind = "ok" -> Resolved(MapJobs("fetchLiveJobs", up.ids))

AdapterPromise(a, up) ==
    IF a = "fetchLiveJobs" THEN FetchLiveJobs(up) ELSE FetchApiJobs(a, up)

(***************************************************************************)
(* scoreJobMatch                                                           *)
(***************************************************************************)
\* analysis.score as the scoring model returns it: absent / not a number, or
\* a number.  Scores are counted in thousandths (0.91 is 910, 88 is 88000).
Analyses ==
    {[numeric |-> FALSE, value |-> 0]}
        \cup {[numeric |-> TRUE, value |-> v] : v \in {910, 88000}}

\* typeof analysis.score === 'number' ? analysis.score : 0
CoerceScore(analysis) == IF analysis.numeric THEN analysis.value ELSE 0

\* jobData.id || Math.random().toString(36).substr(2, 9)
MatchIdAlwaysRandom(jobData, fresh) == fresh
MatchId(jobData, fresh) == IF jobData.id = NoId THEN fresh ELSE jobData.id

\* Math.random() is evaluated (the right operand of || is reached)
DrawsRandomId(jobData) == MatchId(jobData, RandomId(0)) = RandomId(0)

ScoreJobMatch(jobData, analysis, fresh) ==
    [id |-> MatchId(jobData, fresh),
     title |-> TRUE,        \* jobData.title || 'Untitled Position'
     company |-> TRUE,      \* jobData.company || 'Unknown Company'
     score |-> CoerceScore(analysis),
     source |-> "",
     status |-> "pending"]

(***************************************************************************)
(* handleScan                                                              *)
(***************************************************************************)
\* scoredResults.sort((a, b) => b.score - a.score): stable, descending
RECURSIVE InsertByScore(_, _)
InsertByScore(sorted, m) ==
    IF sorted = <<>> THEN <<m>>
    ELSE IF sorted[Len(sorted)].score >= m.score THEN Append(sorted, m)
    ELSE Append(InsertByScore(SubSeq(sorted, 1, Len(sorted) - 1), m), sorted[Len(sorted)])

RECURSIVE SortByScore(_)
SortByScore(ms) ==
    IF ms = <<>> THEN <<>>
    ELSE InsertByScore(SortByScore(SubSeq(ms, 1, Len(ms) - 1)), ms[Len(ms)])

\* geminiJobs.map((j) => ({ ...j, source: 'linkedin' }))
TagLinkedIn(jobs) == [k \in 1..Len(jobs) |-> [jobs[k] EXCEPT !.source = "linkedin"]]

\* [...taggedGeminiJobs, ...arbeitsagenturJobs, ...jsearchJobs]
MergeJobsApiFirst(geminiJobs, arbeitsagenturJobs, jsearchJobs) ==
    arbeitsagenturJobs \o jsearchJobs \o TagLinkedIn(geminiJobs)
MergeJobsDropsLast(geminiJobs, arbeitsagenturJobs, jsearchJobs) ==
    TagLinkedIn(geminiJobs) \o arbeitsagenturJobs
MergeJobs(geminiJobs, arbeitsagenturJobs, jsearchJobs) ==
    TagLinkedIn(geminiJobs) \o arbeitsagenturJobs \o jsearchJobs

\* The indices whose scoreJobMatch call is issued when iteration i begins:
\* the loop awaits each call before the next iteration.
CallsIssuedAllAtOnce(i, n) == i..n
CallsIssued(i, n) == {i}

NoSaved == [user |-> "none", jobs |-> <<>>, ids |-> {}, count |-> 0]

ScanIdle ==
    /\ scanPc = "idle"
    /\ scanUser = "none"
    /\ scanCount = 0
    /\ adapterOut = [a \in AdapterSet |-> Pending]
    /\ completionOrder = <<>>
    /\ allJobs = <<>>
    /\ scanI = 0
    /\ scoredResults = <<>>
    /\ inFlight = {}
    /\ scoreLog = <<>>
    /\ saveInvoked = FALSE
    /\ storeAtStart = [id \in AllIds |-> NoRow]
    /\ failedIn = ""
    /\ randCount = 0
    /\ lastSaved = NoSaved
    /\ prevSaved = NoSaved

ScanOver == scanPc \in {"idle", "saved", "empty", "failed"}

\* handleScan is entered (profile and strategy are set, no scan is running:
\* the button is disabled while isLoading) and the three fetches are issued.
ScanStart ==
    /\ ScanOver
    /\ scanCount < MaxScans
    /\ \E u \in Users : scanUser' = u
    /\ scanCount' = scanCount + 1
    /\ scanPc' = "fetching"
    /\ adapterOut' = [a \in AdapterSet |-> Pending]
    /\ completionOrder' = <<>>
    /\ allJobs' = <<>>
    /\ scanI' = 0
    /\ scoredResults' = <<>>
    /\ inFlight' = {}
    /\ scoreLog' = <<>>
    /\ saveInvoked' = FALSE
    /\ storeAtStart' = job_matches
    /\ failedIn' = ""
    /\ UNCHANGED <<randCount, lastSaved, prevSaved, storeVars, scanFrame>>

\* One adapter's promise settles.
AdapterSettle ==
    /\ scanPc = "fetching"
    /\ \E a \in AdapterSet :
         /\ adapterOut[a].state = "pending"
         /\ \E up \in Upstreams(a) :
              adapterOut' = [adapterOut EXCEPT ![a] = AdapterPromise(a, up)]
         /\ completionOrder' = Append(completionOrder, a)
    /\ UNCHANGED <<scanPc, scanUser, scanCount, allJobs, scanI, scoredResults, inFlight,
                   scoreLog, saveInvoked, storeAtStart, failedIn, randCount, lastSaved,
                   prevSaved, storeVars, scanFrame>>

\* .catch((err) => { console.error(...); return [] })
Caught(p) == IF p.state = "rejected" THEN <<>> ELSE p.jobs

\* Promise.all resolves: tag, concatenate, and stop on an empty result.
ScanMerge ==
    /\ scanPc = "fetching"
    /\ \A a \in AdapterSet : adapterOut[a].state # "pending"
    /\ LET merged == MergeJobs(Caught(adapterOut["fetchLiveJobs"]),
                               Caught(adapterOut["fetchArbeitsagenturJobs"]),
                               Caught(adapterOut["fetchJSearchJobs"]))
       IN  /\ allJobs' = merged
           /\ IF Len(merged) = 0
              THEN scanPc' = "empty" /\ scanI' = 0
              ELSE scanPc' = "loop" /\ scanI' = 1
    /\ UNCHANGED <<scanUser, scanCount, adapterOut, completionOrder, scoredResults,
                   inFlight, scoreLog, saveInvoked, storeAtStart, failedIn, randCount,
                   lastSaved, prevSaved, storeVars, scanFrame>>

\* Iteration i begins: scoreJobMatch(profile, strategy, allJobs[i]) is called.
\* (The fetch results are not read again.)
ScoreStart ==
    /\ scanPc = "loop"
    /\ inFlight' = inFlight \cup CallsIssued(scanI, Len(allJobs))
    /\ scoreLog' = scoreLog \o
          [k \in 1..Cardinality(CallsIssued(scanI, Len(allJobs))) |->
              [ev |-> "start", i |-> scanI + k - 1]]
    /\ scanPc' = "scoring"
    /\ adapterOut' = [a \in AdapterSet |-> Pending]
    /\ completionOrder' = <<>>
    /\ UNCHANGED <<scanUser, scanCount, allJobs, scanI, scoredResults, saveInvoked,
                   storeAtStart, failedIn, randCount, lastSaved, prevSaved, storeVars, scanFrame>>

\* The call resolves: copy the source tag, push; then either the 800 ms delay
\* or, after the last candidate, sort and call saveJobMatches(userId, sorted).
ScoreResolve ==
    /\ scanPc = "scoring"
    /\ scanI \in inFlight
    /\ DrawsRandomId(allJobs[scanI]) => randCount < MaxRand
    /\ \E analysis \in Analyses :
         LET result == [ScoreJobMatch(allJobs[scanI], analysis, RandomId(randCount + 1))
                           EXCEPT !.source = allJobs[scanI].source]
             pushed == Append(scoredResults, result)
         IN  /\ randCount' = IF DrawsRandomId(allJobs[scanI]) THEN randCount + 1
                                                               ELSE randCount
             /\ IF scanI < Len(allJobs)
                THEN /\ scoredResults' = pushed
                     /\ scanPc' = "delay"
                     /\ UNCHANGED saveInvoked
                ELSE /\ scoredResults' = SortByScore(pushed)
                     /\ scanPc' = "saving"
                     /\ saveInvoked' = TRUE
    /\ inFlight' = inFlight \ {scanI}
    /\ scoreLog' = Append(scoreLog, [ev |-> "end", i |-> scanI])
    /\ UNCHANGED <<scanUser, scanCount, adapterOut, completionOrder, allJobs, scanI,
                   storeAtStart, failedIn, lastSaved, prevSaved, storeVars, scanFrame>>

\* The call throws (withRetry gave up): control jumps to the catch block.
ScoreThrowSavesPartial ==
    /\ scanPc = "scoring"
    /\ scanI \in inFlight
    /\ scanPc' = IF scoredResults = <<>> THEN "failed" ELSE "saving"
    /\ failedIn' = "score"
    /\ saveInvoked' = (scoredResults # <<>>)
    /\ inFlight' = inFlight \ {scanI}
    /\ scoreLog' = Append(scoreLog, [ev |-> "end", i |-> scanI])
    /\ UNCHANGED <<scanUser, scanCount, adapterOut, completionOrder, allJobs, scanI,
                   scoredResults, storeAtStart, randCount, lastSaved, prevSaved,
                   storeVars, scanFrame>>
ScoreThrow ==
    /\ scanPc = "scoring"
    /\ scanI \in inFlight
    /\ scanPc' = "failed"
    /\ failedIn' = "score"
    /\ inFlight' = inFlight \ {scanI}
    /\ scoreLog' = Append(scoreLog, [ev |-> "end", i |-> scanI])
    /\ UNCHANGED <<scanUser, scanCount, adapterOut, completionOrder, allJobs, scanI,
                   scoredResults, saveInvoked, storeAtStart, randCount, lastSaved,
                   prevSaved, storeVars, scanFrame>>

\* The 800 ms timer fires: i++.
ScanDelayDone ==
    /\ scanPc = "delay"
    /\ scanI' = scanI + 1
    /\ scanPc' = "loop"
    /\ UNCHANGED <<scanUser, scanCount, adapterOut, completionOrder, allJobs,
                   scoredResults, inFlight, scoreLog, saveInvoked, storeAtStart,
                   failedIn, randCount, lastSaved, prevSaved, storeVars, scanFrame>>

\* saveJobMatches: the upsert is answered.  An error is thrown into the catch
\* block of handleScan.
SaveReturn ==
    /\ scanPc = "saving"
    /\ LET rows == SaveRows(scoredResults)
       IN  \E dbUp \in BOOLEAN :
             IF Len(rows) = 0
             THEN /\ scanPc' = "saved"
                  /\ UNCHANGED <<job_matches, failedIn, lastSaved, prevSaved>>
             ELSE IF ~dbUp \/ UpsertRejected(job_matches, scanUser, rows)
             THEN /\ scanPc' = "failed"
                  /\ failedIn' = IF failedIn = "" THEN "save" ELSE failedIn
                  /\ UNCHANGED <<job_matches, lastSaved, prevSaved>>
             ELSE /\ job_matches' = Upsert(job_matches, scanUser, rows, now)
                  /\ scanPc' = "saved"
                  /\ prevSaved' = lastSaved
                  /\ lastSaved' = [user |-> scanUser,
                                   jobs |-> allJobs,
                                   ids |-> {rows[k].id : k \in 1..Len(rows)},
                                   count |-> Cardinality(StoredIds(job_matches'))]
                  /\ UNCHANGED failedIn
    /\ UNCHANGED <<now, scanUser, scanCount, adapterOut, completionOrder, allJobs, scanI,
                   scoredResults, inFlight, scoreLog, saveInvoked, storeAtStart,
                   randCount, scanFrame>>

ScanNext ==
    \/ ScanStart
    \/ AdapterSettle
    \/ ScanMerge
    \/ ScoreStart
    \/ ScoreResolve
    \/ ScoreThrow
    \/ ScanDelayDone
    \/ SaveReturn

(***************************************************************************)
(* send-digest edge function: serve and sendDigestForUser.                 *)
(* Times are counted in hours.                                             *)
(***************************************************************************)
\* MOCK_MATCHES
MockMatches ==
    << [id |-> <<"mock", 1>>, score |-> 97, created_at |-> Null],
       [id |-> <<"mock", 2>>, score |-> 91, created_at |-> Null],
       [id |-> <<"mock", 3>>, score |-> 85, created_at |-> Null] >>

NoResponse ==
    [status |-> 0, success |-> FALSE, diagnostic |-> FALSE, error |-> "",
     isTest |-> FALSE, usedMockData |-> FALSE, matchCount |-> 0, highestScore |-> 0,
     threshold |-> 0, totalFetched |-> 0, sentTo |-> ""]

NoRequest ==
    [caller |-> "none", auth |-> "none", userId |-> "none", userEmail |-> "",
     user_id |-> "none", email |-> "", threshold |-> Null, test |-> FALSE,
     check |-> FALSE]

\* the userId serve passes to sendDigestForUser: user.id of the verified JWT,
\* body.user_id with the service-role key
UserIdArg(caller, auth, user_id) == IF caller = "jwt" THEN auth ELSE user_id

\* The requests serve hands to sendDigestForUser, with the userId and userEmail
\* it passes: with the service-role key and a body.user_id (userId is
\* body.user_id, userEmail is body.email), or with the JWT of user u (userId is
\* user.id, userEmail is the account email; the body may name any user_id).
Requests ==
    {[caller |-> "service", auth |-> "none", userId |-> UserIdArg("service", "none", u),
      userEmail |-> e, user_id |-> u,
      email |-> e, threshold |-> t, test |-> x, check |-> c] :
        u \in Users, e \in {"", "override"}, t \in {Null, 95},
        x \in BOOLEAN, c \in BOOLEAN}
    \cup
    {[caller |-> "jwt", auth |-> u, userId |-> UserIdArg("jwt", u, b),
      userEmail |-> a, user_id |-> b,
      email |-> e, threshold |-> t, test |-> x, check |-> c] :
        u \in Users, a \in {"", "account"}, b \in {"none", "u2"},
        e \in {"", "override"}, t \in {Null, 95},
        x \in BOOLEAN, c \in BOOLEAN}

\* isTest as serve passes it: body.test === true for the service role, always
\* true for a user JWT
IsTestOfBody(req) == req.test
IsTestOf(req) == IF req.caller = "jwt" THEN TRUE ELSE req.test

\* a || b || c || '' on strings
FirstNonEmpty(a, b, c) == IF a # "" THEN a ELSE IF b # "" THEN b ELSE c

\* a ?? b ?? c
Coalesce(a, b, c) == IF a # Null THEN a ELSE IF b # Null THEN b ELSE c

\* lastSent ? lastSent : Date.now() - 24 * 60 * 60 * 1000
SinceOf(lastSent, t) == IF lastSent # Null THEN lastSent ELSE t - Day

\* the time filter .gte('created_at', since) is part of the query
TimeFilteredAlways(isTest) == TRUE
TimeFiltered(isTest) == ~isTest

\* .eq('user_id', userId).neq('status', 'dismissed') [.gte('created_at', since)]
QueryIds(store, userId, windowed, since) ==
    {id \in DOMAIN store :
        /\ store[id] # NoRow
        /\ store[id].user_id = userId
        /\ store[id].status # "dismissed"
        /\ windowed => store[id].created_at >= since}

Min(a, b) == IF a <= b THEN a ELSE b

\* the first n rows of ids by descending score, in every order the database
\* may give them (rows of equal score come in any order)
RECURSIVE TopAnswers(_, _, _)
TopAnswers(store, ids, n) ==
    IF n = 0 \/ ids = {} THEN {<<>>}
    ELSE LET best == {i \in ids : \A j \in ids : store[i].score >= store[j].score}
         IN  UNION {{<<i>> \o t : t \in TopAnswers(store, ids \ {i}, n - 1)} : i \in best}

\* .order('score', { ascending: false }).limit(20)
QueryAnswersUncapped(store, ids) == TopAnswers(store, ids, Cardinality(ids))
QueryAnswers(store, ids) == TopAnswers(store, ids, Min(Cardinality(ids), QueryLimit))

\* (rawMatches ?? []).map((m) => ({ ...m, score: normalizeScore(m.score) }))
Normalized(store, answer) ==
    [k \in 1..Len(answer) |->
        [id |-> answer[k],
         score |-> NormalizeScore(store[answer[k]].score),
         created_at |-> store[answer[k]].created_at]]

\* normalized.filter((m) => m.score >= effectiveThreshold)
AboveThreshold(ms, threshold) == SelectSeq(ms, LAMBDA m : m.score >= threshold)

RECURSIVE MaxScore(_)
\* matches.length > 0 ? Math.max(...matches.map((m) => m.score)) : 0
MaxScore(ms) ==
    IF ms = <<>> THEN 0
    ELSE LET rest == MaxScore(SubSeq(ms, 2, Len(ms)))
         IN  IF Len(ms) = 1 \/ ms[1].score >= rest THEN ms[1].score ELSE rest

\* matches: in the test fast-path the normalized rows, or MOCK_MATCHES when
\* there are none; otherwise the rows at or above the threshold
SelectMatchesFiltersAlways(isTest, normalized, threshold) ==
    IF isTest /\ Len(AboveThreshold(normalized, threshold)) = 0
    THEN MockMatches
    ELSE AboveThreshold(normalized, threshold)
SelectMatches(isTest, normalized, threshold) ==
    IF isTest
    THEN (IF Len(normalized) = 0 THEN MockMatches ELSE normalized)
    ELSE AboveThreshold(normalized, threshold)

\* the invocations that may run at the same time, none of them at its stamp
Invocations == 1..MaxOverlap
OverlapIdle ==
    /\ ovPc = [i \in Invocations |-> "idle"]
    /\ ovStamp = [i \in Invocations |-> Null]

NoBroadcastResponse == [status |-> 0, error |-> "", results |-> <<>>]

BroadcastIdle ==
    /\ bcPc = "idle"
    /\ bcCheck = FALSE
    /\ bcNow = Null
    /\ bcQueue = <<>>
    /\ bcResults = <<>>
    /\ bcResponse = NoBroadcastResponse
    /\ bcLog = <<>>

DigestIdle ==
    /\ dgPc = "idle"
    /\ dgCount = 0
    /\ dgReq = NoRequest
    /\ dgSettings = EmptySettings
    /\ dgRecipient = ""
    /\ dgThreshold = 0
    /\ dgSince = Null
    /\ dgSinceAt = Null
    /\ dgFetched = <<>>
    /\ dgMatches = <<>>
    /\ dgUsedMock = FALSE
    /\ dgStamp = Null
    /\ dgResponse = NoResponse
    /\ dgFailed = {}
    /\ outbox = <<>>
    /\ BroadcastIdle
    /\ OverlapIdle

\* no invocation of the function is running
ServeIdle == dgPc \in {"idle", "done"} /\ bcPc \in {"idle", "done"}

\* serve: the request is authenticated and sendDigestForUser is entered; the
\* settings row is requested.
DigestRequestFrom(requests) ==
    /\ ServeIdle
    /\ dgCount < MaxDigests
    /\ dgCount' = dgCount + 1
    /\ dgReq' \in requests
    /\ dgPc' = "settings"
    /\ dgSettings' = EmptySettings
    /\ dgRecipient' = ""
    /\ dgThreshold' = 0
    /\ dgSince' = Null
    /\ dgSinceAt' = Null
    /\ dgFetched' = <<>>
    /\ dgMatches' = <<>>
    /\ dgUsedMock' = FALSE
    /\ dgStamp' = Null
    /\ dgResponse' = NoResponse
    /\ dgFailed' = {}
    /\ UNCHANGED <<outbox, user_settings, bcVars, digestFrame>>

DigestRequest == DigestRequestFrom(Requests)

\* sendDigestForUser once the settings are at hand: recipient, threshold and,
\* outside test mode, the time window are resolved and the matches are
\* requested; without a recipient the function returns 400.
Resolve(req, settings) ==
    LET recipientEmail == FirstNonEmpty(req.email, settings.digest_email, req.userEmail)
    IN  /\ dgSettings' = settings
        /\ dgRecipient' = recipientEmail
        /\ IF recipientEmail = ""
           THEN /\ dgResponse' = [NoResponse EXCEPT
                                     !.status = 400,
                                     !.error = "No digest email configured"]
                /\ dgPc' = "done"
                /\ dgThreshold' = 0
                /\ dgSince' = Null
                /\ dgSinceAt' = Null
           ELSE /\ dgThreshold' =
                     Coalesce(req.threshold, settings.match_threshold, DefaultThreshold)
                /\ dgSince' = IF TimeFiltered(IsTestOf(req))
                              THEN SinceOf(settings.last_digest_sent_at, now)
                              ELSE Null
                /\ dgSinceAt' = now
                /\ dgPc' = "query"
                /\ dgResponse' = NoResponse

\* 1. The settings query is answered (an error is only logged).
DigestSettingsLoaded ==
    /\ dgPc = "settings"
    /\ \E dbUp \in BOOLEAN :
         LET row == user_settings[dgReq.userId]
         IN  /\ Resolve(dgReq, IF dbUp /\ row.exists THEN row ELSE EmptySettings)
             /\ dgFailed' = IF dbUp THEN dgFailed ELSE dgFailed \cup {"settings"}
    /\ UNCHANGED <<dgCount, dgReq, dgFetched, dgMatches, dgUsedMock, dgStamp, outbox,
                   user_settings, bcVars, digestFrame>>

Diagnostic(isTest, usedMockData, recipient, threshold, normalized, matches) ==
    [NoResponse EXCEPT
        !.status = 200, !.diagnostic = TRUE, !.isTest = isTest,
        !.usedMockData = usedMockData, !.sentTo = recipient,
        !.threshold = threshold, !.totalFetched = Len(normalized),
        !.highestScore = MaxScore(IF isTest THEN matches ELSE normalized),
        !.matchCount = Len(matches)]

\* if (isDiagnostic): the snapshot is returned instead of sending
ReturnsSnapshotNever(isDiagnostic) == FALSE
ReturnsSnapshot(isDiagnostic) == isDiagnostic

\* 2. - 5. The matches query is answered: normalize, select, and either
\* return (match-load error outside test mode, diagnostic mode) or send.
DigestMatchesLoaded ==
    /\ dgPc = "query"
    /\ LET isTest == IsTestOf(dgReq)
           ids == QueryIds(job_matches, dgReq.userId, TimeFiltered(isTest), dgSince)
       IN  \E dbUp \in BOOLEAN :
           \E answer \in (IF dbUp THEN QueryAnswers(job_matches, ids) ELSE {<<>>}) :
             LET normalized == Normalized(job_matches, answer)
                 usedMockData == isTest /\ Len(normalized) = 0
                 matches == SelectMatches(isTest, normalized, dgThreshold)
             IN  IF ~isTest /\ ~dbUp
                 THEN /\ dgResponse' = [NoResponse EXCEPT
                                           !.status = 500,
                                           !.error = "Failed to load matches"]
                      /\ dgPc' = "done"
                      /\ dgFailed' = dgFailed \cup {"matches"}
                      /\ UNCHANGED <<dgFetched, dgMatches, dgUsedMock>>
                 ELSE /\ dgFailed' = IF dbUp THEN dgFailed ELSE dgFailed \cup {"matches"}
                      /\ dgFetched' = normalized
                      /\ dgMatches' = matches
                      /\ dgUsedMock' = usedMockData
                      /\ IF ReturnsSnapshot(dgReq.check)
                         THEN /\ dgResponse' =
                                   Diagnostic(isTest, usedMockData, dgRecipient,
                                              dgThreshold, normalized, matches)
                              /\ dgPc' = "done"
                         ELSE /\ dgPc' = "send"
                              /\ UNCHANGED dgResponse
    /\ UNCHANGED <<dgCount, dgReq, dgSettings, dgRecipient, dgThreshold, dgSince,
                   dgSinceAt, dgStamp, outbox, user_settings, bcVars, digestFrame>>

\* the test fast-path returns without touching last_digest_sent_at; the
\* automated path stamps it after the send
StampDueAlways(isTest) == TRUE
StampDue(isTest) == ~isTest

Sent(isTest, usedMockData, recipient, threshold, normalized, matches) ==
    [NoResponse EXCEPT
        !.status = 200, !.success = TRUE, !.isTest = isTest,
        !.usedMockData = usedMockData, !.sentTo = recipient,
        !.threshold = threshold,
        !.highestScore = MaxScore(IF isTest THEN matches ELSE normalized),
        !.matchCount = Len(matches)]

\* 7. Resend answers: a thrown fetch ends in the catch block of serve, a
\* non-OK answer is returned with its status; after a delivered test email the
\* function returns, otherwise the stamp is written.
DigestEmailReturned ==
    /\ dgPc = "send"
    /\ \E resend \in {"ok", "refused", "threw"} :
         CASE resend = "threw" ->
                /\ dgResponse' = [NoResponse EXCEPT
                                     !.status = 500, !.error = "Internal server error"]
                /\ dgPc' = "done"
                /\ UNCHANGED <<outbox, dgStamp>>
           [] resend = "refused" ->
                /\ dgResponse' = [NoResponse EXCEPT
                                     !.status = 422, !.error = "Resend API error"]
                /\ dgPc' = "done"
                /\ UNCHANGED <<outbox, dgStamp>>
           [] resend = "ok" ->
                /\ outbox' = Append(outbox,
                                [to |-> dgRecipient, userId |-> dgReq.userId,
                                 isTest |-> IsTestOf(dgReq), at |-> now,
                                 ids |-> {dgMatches[k].id : k \in 1..Len(dgMatches)}])
                /\ IF ~StampDue(IsTestOf(dgReq))
                   THEN /\ dgResponse' = Sent(TRUE, dgUsedMock, dgRecipient, dgThreshold,
                                              dgFetched, dgMatches)
                        /\ dgPc' = "done"
                        /\ UNCHANGED dgStamp
                   ELSE /\ dgStamp' = now
                        /\ dgPc' = "stamp"
                        /\ UNCHANGED dgResponse
    /\ UNCHANGED <<dgCount, dgReq, dgSettings, dgRecipient, dgThreshold, dgSince,
                   dgSinceAt, dgFetched, dgMatches, dgUsedMock, dgFailed, user_settings,
                   bcVars, digestFrame>>

\* The update of last_digest_sent_at is answered (its error is not looked at).
DigestStamped ==
    /\ dgPc = "stamp"
    /\ \E dbUp \in BOOLEAN :
         /\ user_settings' =
               IF dbUp /\ user_settings[dgReq.userId].exists
               THEN [user_settings EXCEPT ![dgReq.userId].last_digest_sent_at = dgStamp]
               ELSE user_settings
         /\ dgFailed' = IF dbUp THEN dgFailed ELSE dgFailed \cup {"stamp"}
    /\ dgResponse' = Sent(FALSE, FALSE, dgRecipient, dgThreshold, dgFetched, dgMatches)
    /\ dgPc' = "done"
    /\ UNCHANGED <<dgCount, dgReq, dgSettings, dgRecipient, dgThreshold, dgSince,
                   dgSinceAt, dgFetched, dgMatches, dgUsedMock, dgStamp, outbox,
                   bcVars, digestFrame>>

(***************************************************************************)
(* send-digest edge function: processAllUsers (the cron broadcast).        *)
(***************************************************************************)
\* the hour of the day at which a user is due
SendHour == 8

\* s.timezone || 'UTC'
ZoneOf(settings) == IF settings.timezone # "" THEN settings.timezone ELSE "UTC"

\* the zones Intl.DateTimeFormat accepts; any other name makes it throw a
\* RangeError
KnownZones == {"UTC", "Europe/Athens"}
UtcOffset(tz) == IF tz = "Europe/Athens" THEN 2 ELSE 0

\* the hour part of formatToParts(now) in the zone tz, hourCycle h23
CurrentHour(t, tz) == (t + UtcOffset(tz)) % Day

\* currentHour !== 8
NotDueNever(t, tz) == FALSE
NotDue(t, tz) == CurrentHour(t, tz) # SendHour

\* .eq('automation_enabled', true).not('digest_email', 'is', null): the rows in
\* any order the database may return them
AllSettingsAnswers(settings) ==
    LET due == {u \in Users : settings[u].exists /\ settings[u].automation_enabled}
        n == Cardinality(due)
    IN  {[k \in 1..n |-> [user_id |-> f[k], row |-> settings[f[k]]]] :
            f \in {g \in [1..n -> due] : \A i, j \in 1..n : i # j => g[i] # g[j]}}

\* results.push({ userId: s.user_id, skipped: true, ... })
SkippedEntry(userId) == [userId |-> userId, skipped |-> TRUE, outcome |-> NoResponse]
\* results.push({ userId: s.user_id, status: result.status, ...result.data })
ResultEntry(userId, result) == [userId |-> userId, skipped |-> FALSE, outcome |-> result]

\* an exception has reached the catch block of serve
Thrown(response) == response.status = 500 /\ response.error = "Internal server error"

\* serve: a service-role request without user_id enters processAllUsers; the
\* settings of the automation-enabled users are requested.
BroadcastStart(count) ==
    /\ ServeIdle
    /\ dgCount < count
    /\ dgCount' = dgCount + 1
    /\ bcPc' = "load"
    /\ bcNow' = Null
    /\ bcQueue' = <<>>
    /\ bcResults' = <<>>
    /\ bcResponse' = NoBroadcastResponse
    /\ bcLog' = <<>>
    /\ UNCHANGED <<user_settings, dgPc, dgReq, dgSettings, dgRecipient, dgThreshold,
                   dgSince, dgSinceAt, dgFetched, dgMatches, dgUsedMock, dgStamp,
                   dgResponse, dgFailed, outbox, digestFrame>>

\* a service-role request without user_id, with or without check
BroadcastRequest == BroadcastStart(MaxDigests) /\ bcCheck' \in BOOLEAN

\* the request of the scheduled job: service role, empty body
CronRequest == BroadcastStart(MaxCronRuns) /\ bcCheck' = FALSE

\* The settings query is answered: on an error a single error entry is
\* returned, otherwise now is taken and the loop begins.
BroadcastLoaded ==
    /\ bcPc = "load"
    /\ \E dbUp \in BOOLEAN :
         IF dbUp
         THEN /\ bcQueue' \in AllSettingsAnswers(user_settings)
              /\ bcNow' = now
              /\ bcPc' = "loop"
              /\ UNCHANGED <<bcResults, bcResponse>>
         ELSE /\ bcResponse' =
                   [status |-> 200, error |-> "",
                    results |-> << ResultEntry("none",
                                     [NoResponse EXCEPT
                                         !.error = "Failed to load user settings"]) >>]
              /\ bcPc' = "done"
              /\ UNCHANGED <<bcQueue, bcNow, bcResults>>
    /\ UNCHANGED <<bcCheck, bcLog, user_settings, dgPc, dgCount, dgReq, dgSettings,
                   dgRecipient, dgThreshold, dgSince, dgSinceAt, dgFetched, dgMatches,
                   dgUsedMock, dgStamp, dgResponse, dgFailed, outbox, digestFrame>>

\* One pass of the loop up to its first await: the hour in the user's zone is
\* computed (an unknown zone throws and serve answers 500); a user who is not
\* due is skipped; for a due user sendDigestForUser is entered with the
\* preloaded settings and runs up to its matches query.
BroadcastVisit ==
    /\ bcPc = "loop"
    /\ bcQueue # <<>>
    /\ LET s == Head(bcQueue)
           tz == ZoneOf(s.row)
           req == [caller |-> "broadcast", auth |-> "none", userId |-> s.user_id,
                   userEmail |-> s.row.digest_email, user_id |-> "none", email |-> "",
                   threshold |-> Null, test |-> FALSE, check |-> bcCheck]
       IN  CASE tz \notin KnownZones ->
                  /\ bcResponse' = [status |-> 500, error |-> "Invalid time zone",
                                    results |-> <<>>]
                  /\ bcPc' = "done"
                  /\ UNCHANGED <<bcQueue, bcResults, bcLog, dgPc, dgReq, dgSettings,
                                 dgRecipient, dgThreshold, dgSince, dgSinceAt, dgFetched,
                                 dgMatches, dgUsedMock, dgStamp, dgResponse, dgFailed>>
             [] tz \in KnownZones /\ NotDue(bcNow, tz) ->
                  /\ bcResults' = Append(bcResults, SkippedEntry(s.user_id))
                  /\ bcQueue' = Tail(bcQueue)
                  /\ UNCHANGED <<bcPc, bcResponse, bcLog, dgPc, dgReq, dgSettings,
                                 dgRecipient, dgThreshold, dgSince, dgSinceAt, dgFetched,
                                 dgMatches, dgUsedMock, dgStamp, dgResponse, dgFailed>>
             [] tz \in KnownZones /\ ~NotDue(bcNow, tz) ->
                  /\ dgReq' = req
                  /\ Resolve(req, s.row)
                  /\ dgFetched' = <<>>
                  /\ dgMatches' = <<>>
                  /\ dgUsedMock' = FALSE
                  /\ dgStamp' = Null
                  /\ dgFailed' = {}
                  /\ bcLog' = Append(bcLog, s.user_id)
                  /\ bcQueue' = Tail(bcQueue)
                  /\ bcPc' = "await"
                  /\ UNCHANGED <<bcResults, bcResponse>>
    /\ UNCHANGED <<bcCheck, bcNow, dgCount, user_settings, outbox, digestFrame>>

\* sendDigestForUser has returned and its result is pushed, or it has thrown
\* and serve answers 500.
BroadcastCollect ==
    /\ bcPc = "await"
    /\ dgPc = "done"
    /\ IF Thrown(dgResponse)
       THEN /\ bcResponse' = [status |-> 500, error |-> dgResponse.error,
                              results |-> <<>>]
            /\ bcPc' = "done"
            /\ UNCHANGED bcResults
       ELSE /\ bcResults' = Append(bcResults, ResultEntry(dgReq.userId, dgResponse))
            /\ bcPc' = "loop"
            /\ UNCHANGED bcResponse
    /\ UNCHANGED <<bcCheck, bcNow, bcQueue, bcLog, user_settings, dgPc, dgCount, dgReq,
                   dgSettings, dgRecipient, dgThreshold, dgSince, dgSinceAt, dgFetched,
                   dgMatches, dgUsedMock, dgStamp, dgResponse, dgFailed, outbox,
                   digestFrame>>

\* The loop is over: serve answers 200 with the results.
BroadcastReturn ==
    /\ bcPc = "loop"
    /\ bcQueue = <<>>
    /\ bcResponse' = [status |-> 200, error |-> "", results |-> bcResults]
    /\ bcPc' = "done"
    /\ UNCHANGED <<bcCheck, bcNow, bcQueue, bcResults, bcLog, user_settings, dgPc,
                   dgCount, dgReq, dgSettings, dgRecipient, dgThreshold, dgSince,
                   dgSinceAt, dgFetched, dgMatches, dgUsedMock, dgStamp, dgResponse,
                   dgFailed, outbox, digestFrame>>

BroadcastNext ==
    \/ BroadcastRequest
    \/ BroadcastLoaded
    \/ BroadcastVisit
    \/ BroadcastCollect
    \/ BroadcastReturn

DigestNext ==
    \/ DigestRequest
    \/ DigestSettingsLoaded
    \/ DigestMatchesLoaded
    \/ DigestEmailReturned
    \/ DigestStamped
    \/ BroadcastNext

\* The stores a digest can find: up to MaxRows rows, of either user, scored
\* 0.91 or 65, created more than 24 h ago, exactly 24 h ago or an hour ago; the
\* settings row of u1 in any state, that of u2 due at the start.
RowNamespaces == <<"aa", "js", "li">>
DigestRowIds == {<<RowNamespaces[k], 1>> : k \in 1..MaxRows}
StoredRows ==
    {NoRow}
      \cup {[user_id |-> "u1", score |-> s, status |-> "pending", created_at |-> t] :
              s \in {910, 65000}, t \in {0, StartTime - Day, StartTime - 1}}
      \cup {[user_id |-> "u1", score |-> 910, status |-> "dismissed",
             created_at |-> StartTime - 1],
            [user_id |-> "u2", score |-> 88000, status |-> "pending",
             created_at |-> StartTime - 1]}
StoredSettings ==
    {NoSettingsRow}
      \cup {[exists |-> TRUE, digest_email |-> e, match_threshold |-> t,
             last_digest_sent_at |-> l, automation_enabled |-> TRUE, timezone |-> ""] :
              e \in {"", "digest"}, t \in {Null, 60}, l \in {Null, StartTime - 3}}
      \cup {[exists |-> TRUE, digest_email |-> "digest", match_threshold |-> Null,
             last_digest_sent_at |-> l, automation_enabled |-> TRUE,
             timezone |-> "Europe/Athens"] : l \in {Null, StartTime - 3}}
      \cup {[exists |-> TRUE, digest_email |-> "digest", match_threshold |-> Null,
             last_digest_sent_at |-> Null, automation_enabled |-> a, timezone |-> z] :
              a \in BOOLEAN, z \in {"Mars/Olympus"}}

StoreForDigest ==
    /\ now = StartTime
    /\ UiIdle
    /\ \E rows \in [DigestRowIds -> StoredRows] :
         job_matches = [id \in AllIds |-> IF id \in DigestRowIds THEN rows[id] ELSE NoRow]
    /\ user_settings \in [Users -> StoredSettings]
    /\ user_settings["u2"] = [exists |-> TRUE, digest_email |-> "digest",
                              match_threshold |-> Null, last_digest_sent_at |-> Null,
                              automation_enabled |-> TRUE, timezone |-> "Europe/Athens"]

ScanInit == RetryIdle /\ StoreEmpty /\ ScanIdle /\ NormIdle /\ DigestIdle

SpecScan == ScanInit /\ [][ScanNext]_vars

NormInit == RetryIdle /\ StoreEmpty /\ ScanIdle /\ NormStart /\ DigestIdle

SpecNorm == NormInit /\ [][NormNext]_vars

(***************************************************************************)
(* App: what a signed-in user does to job_matches (the end of handleScan,  *)
(* the load on mount, accept, dismiss, remove from the shortlist).         *)
(***************************************************************************)
\* the ids the API adapters give their postings
ApiAdapters == {"fetchArbeitsagenturJobs", "fetchJSearchJobs"}
ApiIds == {<<Prefix(a), n>> : a \in ApiAdapters, n \in 1..MaxIds}

\* scoredResults after the scoring loop: scored postings of the API adapters
ScoredCandidates(scores) ==
    {ScoreJobMatch([id |-> i, source |-> ""], [numeric |-> TRUE, value |-> v], NoId) :
        i \in ApiIds, v \in scores}

\* update({ status }).eq('id', matchId) under the policy "Users can update own
\* matches": a row of another user is not touched
UpdateJobStatus(store, userId, matchId, status) ==
    IF store[matchId] # NoRow /\ store[matchId].user_id = userId
    THEN [store EXCEPT ![matchId].status = status]
    ELSE store

\* .eq('user_id', userId).neq('status', 'dismissed'), then
\* .filter(m => m.status !== 'accepted')
LoadedMatches(store, userId) ==
    {id \in StoredIds(store) :
        store[id].user_id = userId /\ store[id].status \notin {"dismissed", "accepted"}}
\* .eq('user_id', userId).eq('status', 'accepted')
LoadedShortlist(store, userId) ==
    {id \in StoredIds(store) : store[id].user_id = userId /\ store[id].status = "accepted"}

\* handleScan from the sort on: setMatches(sorted), then saveJobMatches, whose
\* error is caught and shown.
ScanSave(U, candidates) ==
    \E u \in U, batch \in SeqsUpTo(candidates, MaxJobs), dbUp \in BOOLEAN :
       LET sorted == SortByScore(batch)
           rows == SaveRows(sorted)
       IN  /\ batch # <<>>
           /\ uiMatches' = [uiMatches EXCEPT
                              ![u] = {sorted[k].id : k \in 1..Len(sorted)}]
           /\ IF Len(rows) = 0
              THEN /\ lastOp' = [userId |-> u, result |-> "ok"]
                   /\ UNCHANGED job_matches
              ELSE IF ~dbUp
              THEN /\ lastOp' = [userId |-> u, result |-> "unavailable"]
                   /\ UNCHANGED job_matches
              ELSE IF UpsertRejected(job_matches, u, rows)
              THEN /\ lastOp' = [userId |-> u,
                                 result |-> IF OwnedByOther(job_matches, u, rows)
                                            THEN "policy" ELSE "duplicate"]
                   /\ UNCHANGED job_matches
              ELSE /\ lastOp' = [userId |-> u, result |-> "ok"]
                   /\ job_matches' = Upsert(job_matches, u, rows, now)
           /\ UNCHANGED <<uiShortlist, ticks, now, digestVars, uiFrame>>

\* loadAll on mount: loadJobMatches and loadShortlistedJobs (an error gives []).
LoadAll(U) ==
    \E u \in U, matchesUp \in BOOLEAN, shortlistUp \in BOOLEAN :
       /\ uiMatches' = [uiMatches EXCEPT
                          ![u] = IF matchesUp THEN LoadedMatches(job_matches, u) ELSE {}]
       /\ uiShortlist' = [uiShortlist EXCEPT
                          ![u] = IF shortlistUp THEN LoadedShortlist(job_matches, u) ELSE {}]
       /\ UNCHANGED <<lastOp, ticks, job_matches, now, digestVars, uiFrame>>

\* handleAcceptJob
AcceptJob(U) ==
    \E u \in U, dbUp \in BOOLEAN :
       \E id \in uiMatches[u] :
          /\ uiShortlist' = [uiShortlist EXCEPT ![u] = @ \cup {id}]
          /\ uiMatches' = [uiMatches EXCEPT ![u] = @ \ {id}]
          /\ job_matches' = IF dbUp THEN UpdateJobStatus(job_matches, u, id, "accepted")
                            ELSE job_matches
          /\ lastOp' = [userId |-> u, result |-> IF dbUp THEN "ok" ELSE "unavailable"]
          /\ UNCHANGED <<ticks, now, digestVars, uiFrame>>

\* handleDismissJob
DismissJob(U) ==
    \E u \in U, dbUp \in BOOLEAN :
       \E id \in uiMatches[u] :
          /\ uiMatches' = [uiMatches EXCEPT ![u] = @ \ {id}]
          /\ job_matches' = IF dbUp THEN UpdateJobStatus(job_matches, u, id, "dismissed")
                            ELSE job_matches
          /\ lastOp' = [userId |-> u, result |-> IF dbUp THEN "ok" ELSE "unavailable"]
          /\ UNCHANGED <<uiShortlist, ticks, now, digestVars, uiFrame>>

\* handleRemoveFromShortlist
RemoveFromShortlist(U) ==
    \E u \in U, dbUp \in BOOLEAN :
       \E id \in uiShortlist[u] :
          /\ uiShortlist' = [uiShortlist EXCEPT ![u] = @ \ {id}]
          /\ job_matches' = IF dbUp THEN UpdateJobStatus(job_matches, u, id, "pending")
                            ELSE job_matches
          /\ lastOp' = [userId |-> u, result |-> IF dbUp THEN "ok" ELSE "unavailable"]
          /\ UNCHANGED <<uiMatches, ticks, now, digestVars, uiFrame>>

\* the scores the scorer gives in this model
StoreScores == {910, 88000}

StoreNext ==
    \/ ScanSave(Users, ScoredCandidates(StoreScores))
    \/ LoadAll(Users)
    \/ AcceptJob(Users)
    \/ DismissJob(Users)
    \/ RemoveFromShortlist(Users)

StoreInit == RetryIdle /\ StoreEmpty /\ ScanIdle /\ NormIdle /\ DigestIdle

SpecStore == StoreInit /\ [][StoreNext]_vars

(***************************************************************************)
(* Repeated scheduled digests of one user who keeps scanning and           *)
(* shortlisting.                                                           *)
(***************************************************************************)
\* time passes: an hour or a day
(***************************************************************************)
(* The scheduled digests of one user over several days, between the scans  *)
(* and the status updates of that user.                                    *)
(***************************************************************************)
\* an hour or a day passes
Tick ==
    /\ ticks < MaxTicks
    /\ ticks' = ticks + 1
    /\ \E d \in {1, Day} : now' = now + d
    /\ UNCHANGED <<job_matches, uiMatches, uiShortlist, lastOp, digestVars, uiFrame>>

\* the user of the repeated digests, and what their scans find: one JSearch
\* posting scored above the default threshold
RepeatUsers == {"u1"}
RepeatCandidates ==
    {c \in ScoredCandidates({910}) : c.id[1] = Prefix("fetchJSearchJobs")}

RepeatNext ==
    \/ Tick
    \/ ScanSave(RepeatUsers, RepeatCandidates)
    \/ LoadAll(RepeatUsers)
    \/ AcceptJob(RepeatUsers)
    \/ DismissJob(RepeatUsers)
    \/ RemoveFromShortlist(RepeatUsers)
    \/ CronRequest
    \/ BroadcastLoaded
    \/ BroadcastVisit
    \/ BroadcastCollect
    \/ BroadcastReturn
    \/ DigestMatchesLoaded
    \/ DigestEmailReturned
    \/ DigestStamped

\* An hour before u1 is due: u1 has automation on and had a digest the day
\* before; no match is stored
RepeatInit ==
    /\ RetryIdle /\ ScanIdle /\ NormIdle /\ DigestIdle /\ UiIdle
    /\ now = StartTime - 1
    /\ job_matches = [id \in AllIds |-> NoRow]
    /\ user_settings =
          [u \in Users |->
              IF u \in RepeatUsers
              THEN [exists |-> TRUE, digest_email |-> "digest", match_threshold |-> Null,
                    last_digest_sent_at |-> StartTime - Day, automation_enabled |-> TRUE,
                    timezone |-> "Europe/Athens"]
              ELSE NoSettingsRow]

SpecRepeat == RepeatInit /\ [][RepeatNext]_vars

\* the same, for a user who dismisses nothing
KeepNext ==
    \/ Tick
    \/ ScanSave(RepeatUsers, RepeatCandidates)
    \/ LoadAll(RepeatUsers)
    \/ AcceptJob(RepeatUsers)
    \/ RemoveFromShortlist(RepeatUsers)
    \/ CronRequest
    \/ BroadcastLoaded
    \/ BroadcastVisit
    \/ BroadcastCollect
    \/ BroadcastReturn
    \/ DigestMatchesLoaded
    \/ DigestEmailReturned
    \/ DigestStamped

SpecKeep == RepeatInit /\ [][KeepNext]_vars

(***************************************************************************)
(* A digest over a store with more rows than one query returns.            *)
(***************************************************************************)
QueryRowIds == {<<"js", n>> : n \in 1..MaxStored}

\* u1 has n matches; the first whole of them were stored in whole points
\* (61, 62, ...), the others as fractions (0.71 + k / 100), all with different
\* scores; the first may be dismissed and the second older than a day
QueryStores ==
    {[id \in QueryRowIds |->
        IF id[2] > n THEN NoRow
        ELSE [user_id |-> "u1",
              score |-> IF id[2] <= whole THEN (60 + id[2]) * 1000 ELSE 700 + 10 * id[2],
              status |-> IF id[2] = 1 /\ dismissed THEN "dismissed" ELSE "pending",
              created_at |-> IF id[2] = 2 /\ old THEN 0 ELSE StartTime - 1]] :
        n \in 0..MaxStored, whole \in 0..MaxStored, dismissed \in BOOLEAN, old \in BOOLEAN}

\* service-role requests for u1, in and outside test mode
QueryRequests ==
    {r \in Requests : r.caller = "service" /\ r.userId = "u1" /\ r.email = "" /\ ~r.check}

QueryInit ==
    /\ RetryIdle /\ ScanIdle /\ NormIdle /\ DigestIdle /\ UiIdle
    /\ now = StartTime
    /\ job_matches \in QueryStores
    /\ user_settings =
          [u \in Users |->
              IF u = "u1"
              THEN [exists |-> TRUE, digest_email |-> "digest", match_threshold |-> Null,
                    last_digest_sent_at |-> Null, automation_enabled |-> FALSE,
                    timezone |-> ""]
              ELSE NoSettingsRow]

QueryNext ==
    \/ DigestRequestFrom(QueryRequests)
    \/ DigestSettingsLoaded
    \/ DigestMatchesLoaded
    \/ DigestEmailReturned
    \/ DigestStamped

SpecQuery == QueryInit /\ [][QueryNext]_vars

(***************************************************************************)
(* saveJobMatches on any batch of matches.                                 *)
(***************************************************************************)
\* matches with or without a title and a company
AnyMatches ==
    {[id |-> i, title |-> t, company |-> c, score |-> 910, source |-> "",
      status |-> "pending"] : i \in AllIds, t \in BOOLEAN, c \in BOOLEAN}

\* saveJobMatches(userId, matches) has been called on an empty table
SaveInit ==
    /\ RetryIdle /\ NormIdle /\ DigestIdle /\ StoreEmpty
    /\ scanPc = "saving"
    /\ scanUser = "u1"
    /\ scanCount = 1
    /\ adapterOut = [a \in AdapterSet |-> Resolved(<<>>)]
    /\ completionOrder = Adapters
    /\ allJobs = <<>>
    /\ scanI = 0
    /\ scoredResults \in SeqsUpTo(AnyMatches, MaxRows)
    /\ inFlight = {}
    /\ scoreLog = <<>>
    /\ saveInvoked = TRUE
    /\ storeAtStart = job_matches
    /\ failedIn = ""
    /\ randCount = 0
    /\ lastSaved = NoSaved
    /\ prevSaved = NoSaved

SpecSave == SaveInit /\ [][SaveReturn]_vars

(***************************************************************************)
(* Invocations that overlap: serve handles requests concurrently, so two   *)
(* runs of sendDigestForUser outside test mode for one user (of two        *)
(* broadcasts, or of a broadcast and a service-role call) can both be at   *)
(* the end of the function.                                                *)
(***************************************************************************)
\* what the end of sendDigestForUser leaves alone
overlapFrame ==
    <<retryVars, scanVars, normVars, uiVars, job_matches, dgPc, dgCount, dgReq,
      dgSettings, dgRecipient, dgThreshold, dgSince, dgSinceAt, dgFetched, dgMatches,
      dgUsedMock, dgStamp, dgResponse, dgFailed, outbox, bcVars>>

\* the user both invocations send to
OverlapUser == "u1"

\* Resend has accepted the email of invocation i: new Date().toISOString() is
\* evaluated and the update is sent.
OverlapAccepted(i) ==
    /\ ovPc[i] = "idle"
    /\ ovPc' = [ovPc EXCEPT ![i] = "stamp"]
    /\ ovStamp' = [ovStamp EXCEPT ![i] = now]
    /\ UNCHANGED <<user_settings, now, ticks, overlapFrame>>

\* The update of invocation i reaches the table (or fails, which is not
\* looked at).
OverlapStamped(i) ==
    /\ ovPc[i] = "stamp"
    /\ ovPc' = [ovPc EXCEPT ![i] = "done"]
    /\ \E dbUp \in BOOLEAN :
         user_settings' =
            IF dbUp /\ user_settings[OverlapUser].exists
            THEN [user_settings EXCEPT ![OverlapUser].last_digest_sent_at = ovStamp[i]]
            ELSE user_settings
    /\ UNCHANGED <<ovStamp, now, ticks, overlapFrame>>

OverlapNext ==
    \/ \E i \in Invocations : OverlapAccepted(i)
    \/ \E i \in Invocations : OverlapStamped(i)
    \/ Tick

OverlapInit ==
    /\ RetryIdle /\ ScanIdle /\ NormIdle /\ DigestIdle /\ UiIdle
    /\ now = StartTime
    /\ job_matches = [id \in AllIds |-> NoRow]
    /\ \E last \in {Null, StartTime - Day, StartTime - 1} :
         user_settings =
            [u \in Users |->
                IF u = OverlapUser
                THEN [exists |-> TRUE, digest_email |-> "digest", match_threshold |-> Null,
                      last_digest_sent_at |-> last, automation_enabled |-> TRUE,
                      timezone |-> "Europe/Athens"]
                ELSE NoSettingsRow]

SpecOverlap == OverlapInit /\ [][OverlapNext]_vars

DigestInit == RetryIdle /\ ScanIdle /\ NormIdle /\ StoreForDigest /\ DigestIdle

SpecDigest == DigestInit /\ [][DigestNext]_vars

RetryInit == RetryStart /\ StoreEmpty /\ ScanIdle /\ NormIdle /\ DigestIdle

SpecRetry == RetryInit /\ [][RetryNext]_vars

(***************************************************************************)
(* Properties of withRetry.                                                *)
(***************************************************************************)
RetryTerminal == retryPc \in {"returned", "thrown"}
RateLimited(e) == e.out.kind = "error" /\ (e.out.message429 \/ e.out.status = RateLimitStatus)
AlwaysRateLimited == \A k \in 1..Len(Calls(retryLog)) : RateLimited(Calls(retryLog)[k])
\* calls and sleeps alternate, and the log both starts and ends with a call
SleepsOnlyBetweenCalls ==
    \A k \in 1..Len(retryLog) :
        retryLog[k].ev = (IF k % 2 = 1 THEN "call" ELSE "sleep")
\* fn behaves as in the scenario: rate-limited on invocations 1 and 2, a value on 3
TwiceLimitedThenOk ==
    \A k \in 1..Len(Calls(retryLog)) :
        IF k <= 2 THEN RateLimited(Calls(retryLog)[k])
                  ELSE Calls(retryLog)[k].out.kind = "value"

\* C1: withRetry(fn, 3) with fn rate-limited on its first two invocations and
\* succeeding on the third returns the third invocation's result after exactly
\* three invocations and exactly two sleeps, 2000 ms then 4000 ms (6000 ms in
\* total), each between two attempts.
C1_TwoBackoffsThenResult ==
    (maxRetries = DefaultMaxRetries /\ RetryTerminal /\ TwiceLimitedThenOk) =>
        /\ retryPc = "returned"
        /\ Len(Calls(retryLog)) = 3
        /\ retryResult = Calls(retryLog)[3].out
        /\ retryResult.at = 3
        /\ Len(Sleeps(retryLog)) = 2
        /\ Sleeps(retryLog)[1].ms = 2000
        /\ Sleeps(retryLog)[2].ms = 4000
        /\ Sleeps(retryLog)[1].ms + Sleeps(retryLog)[2].ms = 6000
        /\ Len(retryLog) = 5
        /\ SleepsOnlyBetweenCalls

C1_Witness ==
    /\ maxRetries = DefaultMaxRetries
    /\ retryPc = "returned"
    /\ Len(Calls(retryLog)) = 3
    /\ RateLimited(Calls(retryLog)[1])
    /\ RateLimited(Calls(retryLog)[2])

\* C2: for every maxRetries >= 1, when fn is rate-limited on every invocation,
\* withRetry stops after exactly maxRetries invocations: it never invokes fn
\* more often, sleeps only between two attempts (never after the last) and
\* throws the failure of the last invocation.
C2_ExhaustionThrowsLast ==
    (maxRetries >= 1 /\ AlwaysRateLimited) =>
        /\ Len(Calls(retryLog)) <= maxRetries
        /\ Len(Sleeps(retryLog)) <= maxRetries - 1
        /\ retryPc # "returned"
        /\ ~RetryTerminal => ENABLED RetryNext
        /\ RetryTerminal =>
             /\ retryPc = "thrown"
             /\ Len(Calls(retryLog)) = maxRetries
             /\ Len(Sleeps(retryLog)) = maxRetries - 1
             /\ SleepsOnlyBetweenCalls
             /\ retryLog[Len(retryLog)].ev = "call"
             /\ retryThrown = retryLog[Len(retryLog)].out
             /\ retryThrown.at = maxRetries

C2_Witness ==
    /\ maxRetries >= 2
    /\ retryPc = "thrown"
    /\ AlwaysRateLimited
    /\ Len(Calls(retryLog)) = maxRetries

\* C3: a failure of fn that is not a rate-limit signal, at whichever attempt,
\* is thrown to the caller as that same failure at once: it is the last entry
\* of the history (no sleep and no further invocation follows it).
C3_OtherFailurePropagates ==
    \A k \in 1..Len(retryLog) :
        (/\ retryLog[k].ev = "call"
         /\ retryLog[k].out.kind = "error"
         /\ ~RateLimited(retryLog[k])) =>
            /\ k = Len(retryLog)
            /\ retryPc = "thrown"
            /\ retryThrown = retryLog[k].out

C3_Witness ==
    /\ retryPc = "thrown"
    /\ Len(Calls(retryLog)) >= 2
    /\ ~RateLimited(retryLog[Len(retryLog)])
    /\ RateLimited(retryLog[1])

(***************************************************************************)
(* Properties of a scan.                                                   *)
(***************************************************************************)
\* Promise.all has resolved and the merged sequence has just been built
Merged ==
    /\ scanPc \in {"loop", "empty"}
    /\ \A a \in AdapterSet : adapterOut[a].state # "pending"
ResolvedAdapters == {a \in AdapterSet : adapterOut[a].state = "resolved"}
RejectedAdapters == {a \in AdapterSet : adapterOut[a].state = "rejected"}
ResultCount(a) == IF a \in ResolvedAdapters THEN Len(adapterOut[a].jobs) ELSE 0
\* where the results of the k-th adapter start in the merged sequence
RECURSIVE Offset(_)
Offset(k) == IF k = 1 THEN 0 ELSE Offset(k - 1) + ResultCount(Adapters[k - 1])

\* C4: whatever subset of the three adapters rejects, the merged candidate
\* sequence is the concatenation (in the order fetchLiveJobs,
\* fetchArbeitsagenturJobs, fetchJSearchJobs) of the results of the adapters
\* that resolved, its length is the sum of their result counts, and a scan
\* only ever fails in scoring or saving, never because an adapter failed.
C4_MergeToleratesAdapterFailure ==
    /\ Merged =>
         /\ Len(allJobs) = Offset(Len(Adapters)) + ResultCount(Adapters[Len(Adapters)])
         /\ \A k \in 1..Len(Adapters) :
              \A n \in 1..ResultCount(Adapters[k]) :
                  /\ allJobs[Offset(k) + n].id = adapterOut[Adapters[k]].jobs[n].id
                  /\ Adapters[k] # "fetchLiveJobs" =>
                        allJobs[Offset(k) + n] = adapterOut[Adapters[k]].jobs[n]
    /\ scanPc = "failed" => failedIn \in {"score", "save"}
    /\ (scanPc = "fetching" /\ \A a \in AdapterSet : adapterOut[a].state # "pending")
          => ENABLED ScanMerge

C4_Witness ==
    /\ scanPc = "loop"
    /\ Cardinality(RejectedAdapters) = 1
    /\ Len(allJobs) = 2
    /\ \A a \in ResolvedAdapters : Len(adapterOut[a].jobs) = 1

\* C5: within one scan at most one scoreJobMatch call is in flight, and the
\* calls start and end strictly alternately in the order of the merged
\* candidate sequence: start 1, end 1, start 2, end 2, ...
C5_ScoringIsSequential ==
    /\ Cardinality(inFlight) <= 1
    /\ \A k \in 1..Len(scoreLog) :
         scoreLog[k] = IF k % 2 = 1 THEN [ev |-> "start", i |-> (k + 1) \div 2]
                                    ELSE [ev |-> "end", i |-> k \div 2]
    /\ inFlight # {} => scoreLog[Len(scoreLog)] = [ev |-> "start", i |-> scanI]

C5_Witness ==
    /\ scanPc = "scoring"
    /\ scanI = 2
    /\ inFlight = {2}
    /\ Len(scoredResults) = 1

\* C6: a scan in which a score call threw never invokes saveJobMatches, and the
\* stored rows are exactly those from before the scan, however many candidates
\* had been scored.
C6_FailedScanPersistsNothing ==
    failedIn = "score" => (~saveInvoked /\ job_matches = storeAtStart)

C6_Witness ==
    /\ scanPc = "failed"
    /\ failedIn = "score"
    /\ Len(scoredResults) >= 1
    /\ StoredIds(job_matches) # {}

Rescan ==
    /\ lastSaved # NoSaved
    /\ prevSaved.user = lastSaved.user
    /\ prevSaved.jobs = lastSaved.jobs
AllHaveIds(jobs) == \A k \in 1..Len(jobs) : jobs[k].id # NoId

\* C7 (as claimed): the second of two persisted scans of the same candidate set
\* by the same user upserts the same ids and leaves the number of stored rows
\* unchanged, for every candidate set the adapters can produce.
C7_RescanIsIdempotent ==
    Rescan => (lastSaved.ids = prevSaved.ids /\ lastSaved.count = prevSaved.count)

\* C7 (amended): the same, for every candidate set in which each candidate
\* carries an id.
C7_RescanIsIdempotentWithIds ==
    (Rescan /\ AllHaveIds(lastSaved.jobs)) =>
        (lastSaved.ids = prevSaved.ids /\ lastSaved.count = prevSaved.count)

C7_Witness ==
    /\ Rescan
    /\ AllHaveIds(lastSaved.jobs)
    /\ Len(lastSaved.jobs) >= 2
    /\ scanPc = "saved"

(***************************************************************************)
(* Properties of normalizeScore.                                           *)
(***************************************************************************)
\* n is x = num / den rounded to the nearest integer, a tie going up
Nearest(n, num, den) == 2 * num - den < 2 * den * n /\ 2 * den * n <= 2 * num + den

\* C8: normalizeScore(s) is s * 100 rounded to the nearest integer for
\* 0 <= s <= 1.5 and s rounded to the nearest integer for s > 1.5; and it maps
\* every whole score 2..100 to itself, so normalizing such a score twice
\* changes nothing.
C8_NormalizeScore ==
    normPc \in {"once", "twice"} =>
        /\ (0 <= normRaw /\ normRaw <= 1500) => Nearest(normOnce, normRaw, 10)
        /\ normRaw > 1500 => Nearest(normOnce, normRaw, 1000)
        /\ (normRaw % 1000 = 0 /\ normRaw \div 1000 \in 2..100) =>
                normOnce = normRaw \div 1000
        /\ (normPc = "twice" /\ normOnce \in 2..100) => normTwice = normOnce

C8_Witness ==
    /\ normPc = "twice"
    /\ normRaw = 1500
    /\ normOnce = 150
    /\ normTwice = 150

(***************************************************************************)
(* Digest selection (sendDigestForUser).                                   *)
(***************************************************************************)
\* the match set of the running digest has been selected and the stamp has not
\* been written yet
Selected ==
    \/ dgPc = "send"
    \/ dgPc = "done" /\ dgResponse.diagnostic

SelectedIds == {dgMatches[k].id : k \in 1..Len(dgMatches)}
FetchedIds == {dgFetched[k].id : k \in 1..Len(dgFetched)}

\* since as the stored settings row gives it: the stored last_digest_sent_at
\* when present, otherwise the clock at the selection minus 24 hours
StoredSince == SinceOf(user_settings[dgReq.userId].last_digest_sent_at, dgSinceAt)

\* C9: in non-test mode every selected match has a normalized score of at least
\* the effective threshold, was created at or after since (the stored
\* last_digest_sent_at when there is one, otherwise the clock minus 24 hours)
\* and is not dismissed.
C9_NonTestSelectionInWindow ==
    (Selected /\ ~IsTestOf(dgReq)) =>
        \A k \in 1..Len(dgMatches) :
            /\ dgMatches[k].score >= dgThreshold
            /\ dgMatches[k].created_at >= StoredSince
            /\ job_matches[dgMatches[k].id].status # "dismissed"

\* C10: in test mode no time window is applied: when stored matches are
\* selected they are all the non-dismissed matches of the user, whatever their
\* created_at and whatever last_digest_sent_at is stored; otherwise the mock
\* matches are selected.
C10_TestSelectionIgnoresWindow ==
    (Selected /\ IsTestOf(dgReq)) =>
        /\ dgSince = Null
        /\ IF dgFetched # <<>>
           THEN /\ FetchedIds =
                     {id \in StoredIds(job_matches) :
                         /\ job_matches[id].user_id = dgReq.userId
                         /\ job_matches[id].status # "dismissed"}
                /\ dgMatches = dgFetched
           ELSE dgMatches = MockMatches

\* a test digest selects a match created more than 24 hours ago and before the
\* stored last_digest_sent_at
C10_Witness ==
    /\ Selected
    /\ IsTestOf(dgReq)
    /\ user_settings[dgReq.userId].last_digest_sent_at # Null
    /\ \E k \in 1..Len(dgMatches) :
          /\ dgMatches[k].id \in StoredIds(job_matches)
          /\ dgMatches[k].created_at < now - Day
          /\ dgMatches[k].created_at < user_settings[dgReq.userId].last_digest_sent_at

\* the stored matches of the digest's user that are not dismissed
Eligible ==
    {id \in StoredIds(job_matches) :
        /\ job_matches[id].user_id = dgReq.userId
        /\ job_matches[id].status # "dismissed"}

\* the test digest has returned after Resend accepted the email
TestDelivered == dgPc = "done" /\ IsTestOf(dgReq) /\ dgResponse.success

AutomationEnabled ==
    {u \in Users : user_settings[u].exists /\ user_settings[u].automation_enabled}

\* the hour of the broadcast's now in the user's stored zone, UTC when unset
LocalHour(u) == CurrentHour(bcNow, ZoneOf(user_settings[u]))

\* the users recorded as skipped, the users with a result of sendDigestForUser,
\* and the users sendDigestForUser was entered for
SkippedUsers == {bcResults[k].userId : k \in {j \in 1..Len(bcResults) : bcResults[j].skipped}}
ProcessedUsers ==
    {bcResults[k].userId : k \in {j \in 1..Len(bcResults) : ~bcResults[j].skipped}}
InvokedUsers == {bcLog[k] : k \in 1..Len(bcLog)}

\* the loop has run to its end and the results are returned
BroadcastReturned == bcPc = "done" /\ bcResponse.status = 200 /\ bcNow # Null

EmailAccepted ==
    /\ outbox # <<>>
    /\ outbox[Len(outbox)].userId = dgReq.userId
    /\ outbox[Len(outbox)].ids = SelectedIds

\* C13: last_digest_sent_at of a user changes only in the stamp step of a
\* digest for that user that is neither a test nor a diagnostic run and whose
\* email was accepted; no other step of the function changes it.
C13_StampOnlyAfterRealSend ==
    [][\A u \in Users :
          user_settings'[u].last_digest_sent_at # user_settings[u].last_digest_sent_at =>
              /\ dgPc = "stamp"
              /\ dgReq.userId = u
              /\ ~IsTestOf(dgReq)
              /\ ~dgReq.check
              /\ EmailAccepted
              /\ user_settings'[u].last_digest_sent_at = dgStamp]_vars

\* a digest that is neither test nor diagnostic has delivered and stamped
C13_Witness ==
    /\ dgPc = "done"
    /\ dgResponse.success
    /\ ~dgResponse.isTest
    /\ dgStamp # Null
    /\ user_settings[dgReq.userId].last_digest_sent_at = dgStamp

(***************************************************************************)
(* Stored matches under the users' scans and status updates.               *)
(***************************************************************************)
\* the rows of a user as far as ownership goes: id, score and status
RowsOf(store, u) ==
    {<<id, store[id].score, store[id].status>> :
        id \in {i \in StoredIds(store) : store[i].user_id = u}}

\* C18: the rows of a user (existence, owner, score, status) change only by
\* that user's own operations, and no save of a scan fails because of rows of
\* another user.
C18_MatchesOwnedPerUser ==
    [][/\ \A u \in Users :
             RowsOf(job_matches', u) # RowsOf(job_matches, u) => lastOp'.userId = u
       /\ lastOp'.result # "policy"]_vars

StatusTransitions ==
    {<<"pending", "accepted">>, <<"pending", "dismissed">>, <<"accepted", "pending">>}

\* C19: a stored match stays stored, its status changes only from pending to
\* accepted, from pending to dismissed or from accepted to pending, and its
\* score never changes.
C19_StatusAndScoreOfStoredMatch ==
    [][\A id \in StoredIds(job_matches) :
          /\ job_matches'[id] # NoRow
          /\ \/ job_matches'[id].status = job_matches[id].status
             \/ <<job_matches[id].status, job_matches'[id].status>> \in StatusTransitions
          /\ job_matches'[id].score = job_matches[id].score]_vars

(***************************************************************************)
(* Repeated digests.                                                       *)
(***************************************************************************)
\* C14: a stored match that was created before a digest of a user was sent
\* outside test mode, and is in that digest, is in no later digest of that
\* user sent outside test mode.
C14_DigestsDoNotOverlap ==
    \A i, j \in 1..Len(outbox) :
        (i < j /\ outbox[i].userId = outbox[j].userId
               /\ ~outbox[i].isTest /\ ~outbox[j].isTest) =>
            \A id \in outbox[i].ids \cap outbox[j].ids \cap AllIds :
                ~(job_matches[id].created_at < outbox[i].at)

(***************************************************************************)
(* Broadcast: failures of one user.                                        *)
(***************************************************************************)
\* the users with an entry in the returned results
ReportedUsers == {bcResponse.results[k].userId : k \in 1..Len(bcResponse.results)}

\* C15: a broadcast that has loaded the settings and is over has answered
\* with exactly one entry for every automation-enabled user, whatever
\* happened while one of them was processed.
C15_BroadcastIsolatesFailures ==
    (bcPc = "done" /\ bcNow # Null) =>
        /\ bcResponse.status = 200
        /\ ReportedUsers = AutomationEnabled
        /\ Len(bcResponse.results) = Cardinality(AutomationEnabled)

(***************************************************************************)
(* Recipient resolution.                                                   *)
(***************************************************************************)
\* sendDigestForUser has passed its recipient resolution
RecipientResolved == dgReq.caller # "none" /\ dgPc \in {"query", "send", "stamp", "done"}

\* the override, else the stored digest_email, else the account email
ExpectedRecipient ==
    FirstNonEmpty(dgReq.email, user_settings[dgReq.userId].digest_email, dgReq.userEmail)

\* C16: once the recipient is resolved it is the override when given, else
\* the stored digest_email, else the account email; when all three are
\* absent the digest has ended with status 400 and has neither queried the
\* matches, nor sent an email, nor written last_digest_sent_at.
C16_RecipientResolution ==
    RecipientResolved =>
        /\ dgRecipient = ExpectedRecipient
        /\ ExpectedRecipient = "" =>
              /\ dgPc = "done"
              /\ dgResponse.status = 400
              /\ dgFetched = <<>> /\ dgMatches = <<>>
              /\ dgStamp = Null
              /\ dgFailed \subseteq {"settings"}
              /\ dgResponse.sentTo = ""

(***************************************************************************)
(* Requests with an end-user credential.                                   *)
(***************************************************************************)
\* the stored matches among the fetched ones
FetchedStored == {dgFetched[k].id : k \in 1..Len(dgFetched)} \cap AllIds

\* C17: while a request with a user JWT is handled, whatever its body says,
\* the digest is for the authenticated user: the settings used and every
\* stored match fetched are that user's, no time window is computed, the
\* stamp step is never reached and user_settings is not written.
C17_JwtIsAlwaysTest ==
    [][dgReq'.caller = "jwt" =>
          /\ dgReq'.userId = dgReq'.auth
          /\ dgSettings' \in {EmptySettings, user_settings[dgReq'.auth]}
          /\ \A id \in FetchedStored' : job_matches[id].user_id = dgReq'.auth
          /\ dgSince' = Null
          /\ dgPc' # "stamp" /\ dgStamp' = Null
          /\ dgPc' = "done" /\ dgResponse'.status = 200 => dgResponse'.isTest
          /\ user_settings' = user_settings]_vars

\* u1's JWT with test false and user_id u2 in the body: the digest has been
\* sent with a stored match of u1, while u2 has one fetchable too
C17_Witness ==
    /\ dgReq.caller = "jwt" /\ dgReq.auth = "u1"
    /\ dgReq.user_id = "u2" /\ ~dgReq.test
    /\ dgPc = "done" /\ dgResponse.success
    /\ FetchedStored # {}
    /\ \E id \in AllIds :
          job_matches[id].user_id = "u2" /\ job_matches[id].status # "dismissed"
    /\ user_settings["u1"].last_digest_sent_at # Null
    /\ outbox # <<>>

(***************************************************************************)
(* Persistence errors during a digest.                                     *)
(***************************************************************************)
\* C20: a digest during which the read of the settings, the read of the
\* matches or the write of last_digest_sent_at failed has ended with an error
\* answer (a status of 400 or more with an error text), not with success.
C20_PersistenceErrorsSurfaced ==
    (dgPc = "done" /\ dgFailed # {}) =>
        /\ ~dgResponse.success
        /\ dgResponse.status >= 400
        /\ dgResponse.error # ""

(***************************************************************************)
(* The outcomes of a digest attempt in a broadcast.                        *)
(***************************************************************************)
\* the four terminal states, read off an entry of the results
IsSkipped(entry) == entry.skipped
IsNoRecipient(entry) ==
    ~entry.skipped /\ entry.outcome.status = 400
                   /\ entry.outcome.error = "No digest email configured"
IsSent(entry) ==
    ~entry.skipped /\ entry.outcome.status = 200 /\ entry.outcome.success
IsSendFailed(entry) ==
    ~entry.skipped /\ entry.outcome.error = "Resend API error"
TerminalStates(entry) ==
    {k \in 1..4 : <<IsSkipped(entry), IsNoRecipient(entry), IsSent(entry),
                    IsSendFailed(entry)>>[k]}

\* C21: in a broadcast without check, every attempt that has ended is in
\* exactly one of Skipped, NoRecipient, Sent and SendFailed, and when the
\* broadcast is over every automation-enabled user's attempt has ended so.
C21_AttemptEndsInTerminalState ==
    (bcPc # "idle" /\ ~bcCheck /\ bcNow # Null) =>
        /\ \A k \in 1..Len(bcResults) : Cardinality(TerminalStates(bcResults[k])) = 1
        /\ (bcPc = "await" /\ dgPc = "done") =>
              Cardinality(TerminalStates(ResultEntry(dgReq.userId, dgResponse))) = 1
        /\ bcPc = "done" =>
              {bcResults[k].userId : k \in 1..Len(bcResults)} = AutomationEnabled

(***************************************************************************)
(* Diagnostic mode.                                                        *)
(***************************************************************************)
\* a request with check, or a broadcast with check, is being handled
DiagnosticRun == dgReq.check \/ (bcPc # "idle" /\ bcCheck)

\* C22: while an invocation with check = true is handled, in or outside test
\* mode, for one user or as a broadcast, no email is sent and user_settings
\* is not written; a digest of it that answers 200 answers with the snapshot
\* of the selection: recipient, threshold, totalFetched, highestScore and the
\* number of matches.
C22_DiagnosticSendsNothing ==
    [][DiagnosticRun' =>
          /\ outbox' = outbox
          /\ user_settings' = user_settings
          /\ dgPc' \notin {"send", "stamp"}
          /\ (dgPc' = "done" /\ dgResponse'.status = 200) =>
                /\ dgResponse'.diagnostic /\ ~dgResponse'.success
                /\ dgResponse'.isTest = IsTestOf(dgReq')
                /\ dgResponse'.sentTo = dgRecipient'
                /\ dgResponse'.threshold = dgThreshold'
                /\ dgResponse'.totalFetched = Len(dgFetched')
                /\ dgResponse'.matchCount = Len(dgMatches')
                /\ dgResponse'.highestScore =
                      MaxScore(IF IsTestOf(dgReq') THEN dgMatches' ELSE dgFetched')]_vars

\* a broadcast with check has returned the snapshot of a due user with a
\* match above the threshold
C22_Witness ==
    /\ bcPc = "done" /\ bcCheck /\ bcResponse.status = 200
    /\ \E k \in 1..Len(bcResponse.results) :
          /\ ~bcResponse.results[k].skipped
          /\ bcResponse.results[k].outcome.diagnostic
          /\ bcResponse.results[k].outcome.matchCount > 0
    /\ outbox = <<>>

(***************************************************************************)
(* The range of scores.                                                    *)
(***************************************************************************)
\* C23: the normalized score the digest compares with the threshold and
\* reports as highestScore is within 0..100 for every stored value.
C23_ScoresWithinRange ==
    normPc \in {"once", "twice"} => (0 <= normOnce /\ normOnce <= 100)

(***************************************************************************)
(* The order of the merged candidates.                                     *)
(***************************************************************************)
\* the source tag the candidates of an adapter carry after the merge
MergedTag(a) == IF a = "fetchLiveJobs" THEN "linkedin" ELSE SourceTag(a)
\* where the candidates of an adapter are in the merged sequence
PositionsOf(a) == {k \in 1..Len(allJobs) : allJobs[k].source = MergedTag(a)}
\* every candidate of a comes before every candidate of b
AllBefore(a, b) == \A p \in PositionsOf(a), q \in PositionsOf(b) : p < q
\* the candidates of an adapter are in the order the adapter returned them
KeepsSourceOrder(a) ==
    LET ids == [k \in 1..Len(Caught(adapterOut[a])) |-> Caught(adapterOut[a])[k].id]
        got == SelectSeq(allJobs, LAMBDA j : j.source = MergedTag(a))
    IN  ids = [k \in 1..Len(got) |-> got[k].id]

\* C24 as stated: the candidates of an adapter that settled earlier come
\* before those of an adapter that settled later, and within an adapter the
\* order of the source is kept.
C24_MergeInCompletionOrder ==
    Merged =>
        /\ \A i, j \in 1..Len(completionOrder) :
              i < j => AllBefore(completionOrder[i], completionOrder[j])
        /\ \A a \in AdapterSet : KeepsSourceOrder(a)

\* C24 amended: whatever the order in which the adapters settle, the merged
\* sequence has the candidates of fetchLiveJobs, then those of
\* fetchArbeitsagenturJobs, then those of fetchJSearchJobs, each in the order
\* its source returned them.
C24_MergeInArgumentOrder ==
    Merged =>
        /\ \A i, j \in 1..Len(Adapters) : i < j => AllBefore(Adapters[i], Adapters[j])
        /\ \A a \in AdapterSet : KeepsSourceOrder(a)
        /\ \A k \in 1..Len(allJobs) : \E a \in AdapterSet : k \in PositionsOf(a)

\* fetchJSearchJobs settled first and fetchLiveJobs last, each with a
\* candidate, and the merge has been made
C24_Witness ==
    /\ Merged
    /\ completionOrder[1] = "fetchJSearchJobs"
    /\ completionOrder[3] = "fetchLiveJobs"
    /\ PositionsOf("fetchJSearchJobs") # {}
    /\ PositionsOf("fetchLiveJobs") # {}

(***************************************************************************)
(* The size and the order of the query answer.                             *)
(***************************************************************************)
\* the matches query of the digest at hand has been answered without error
Fetched == Selected /\ "matches" \notin dgFailed
\* the rows that satisfy the conditions of the query
Satisfying == QueryIds(job_matches, dgReq.userId, ~IsTestOf(dgReq), dgSince)
\* the fetched rows are the n rows of the highest stored score, by descending
\* stored score
HighestFetched(n) ==
    /\ Len(dgFetched) = n
    /\ FetchedIds \subseteq Satisfying
    /\ \A i, j \in 1..Len(dgFetched) : i < j =>
          /\ dgFetched[i].id # dgFetched[j].id
          /\ job_matches[dgFetched[i].id].score >= job_matches[dgFetched[j].id].score
    /\ \A id \in Satisfying \ FetchedIds : \A k \in 1..Len(dgFetched) :
          job_matches[dgFetched[k].id].score >= job_matches[id].score

\* C25 as stated: the rows are fetched by descending score with a cap of 50.
C25_QueryCappedAtFifty ==
    Fetched => HighestFetched(Min(Cardinality(Satisfying), 50))

\* C25 amended: the rows are fetched by descending stored score with a cap of
\* 20: when more than 20 rows satisfy the conditions exactly the 20 of the
\* highest stored score are fetched, otherwise all of them.
C25_QueryCappedAtLimit ==
    Fetched => HighestFetched(Min(Cardinality(Satisfying), QueryLimit))

\* a digest outside test mode has fetched 20 of 21 rows inside the window
C25_Witness ==
    /\ Fetched /\ ~IsTestOf(dgReq)
    /\ Cardinality(Satisfying) = QueryLimit + 1
    /\ Len(dgFetched) = QueryLimit

(***************************************************************************)
(* The best matches.                                                       *)
(***************************************************************************)
\* C30: outside test mode, when a row that satisfies the conditions of the
\* query and has a normalized score of at least the effective threshold is
\* not among the selected matches, 20 matches are selected and each has a
\* normalized score of at least that of the row left out.
C30_BestMatchesSelected ==
    (Fetched /\ ~IsTestOf(dgReq)) =>
        \A id \in Satisfying \ SelectedIds :
            NormalizeScore(job_matches[id].score) >= dgThreshold =>
                /\ Len(dgMatches) = QueryLimit
                /\ \A k \in 1..Len(dgMatches) :
                      dgMatches[k].score >= NormalizeScore(job_matches[id].score)

(***************************************************************************)
(* The rows saveJobMatches drops.                                          *)
(***************************************************************************)
\* the ids of the matches of the batch that satisfy a condition
BatchIds(Keep(_)) ==
    {scoredResults[k].id : k \in {j \in 1..Len(scoredResults) : Keep(scoredResults[j])}}
HasTitleOrCompany(m) == m.title \/ m.company
HasTitleAndCompany(m) == m.title /\ m.company

LocalDay(t, u) == (t + UtcOffset(ZoneOf(user_settings[u]))) \div Day

\* C27: no two digest emails of the scheduled broadcast go to one user on
\* the same calendar day of that user's zone.
C27_OneDigestPerLocalDay ==
    \A i, j \in 1..Len(outbox) :
        (i < j /\ outbox[i].userId = outbox[j].userId
               /\ ~outbox[i].isTest /\ ~outbox[j].isTest) =>
            LocalDay(outbox[i].at, outbox[i].userId) # LocalDay(outbox[j].at, outbox[j].userId)

(***************************************************************************)
(* The stored stamp over time.                                             *)
(***************************************************************************)
\* C28: every write of last_digest_sent_at replaces the value by one that is
\* at least as great, also when invocations for the same user overlap.
C28_StampNeverDecreases ==
    [][\A u \in Users :
          user_settings'[u].last_digest_sent_at >= user_settings[u].last_digest_sent_at]_vars

(***************************************************************************)
(* Matches no digest picks up.                                             *)
(***************************************************************************)
\* the threshold of a user's scheduled digest
StoredThreshold(u) == Coalesce(Null, user_settings[u].match_threshold, DefaultThreshold)
\* the match is in an email sent to its owner outside test mode
Digested(id) ==
    \E k \in 1..Len(outbox) :
        /\ outbox[k].userId = job_matches[id].user_id
        /\ ~outbox[k].isTest
        /\ id \in outbox[k].ids

\* C29: a stored match that has never been dismissed, has a normalized score
\* of at least its owner's threshold and was created before the owner's
\* stored last_digest_sent_at (so that no later window reaches it) is in a
\* digest email sent to its owner.
C29_NoEligibleMatchLost ==
    \A id \in StoredIds(job_matches) :
        LET u == job_matches[id].user_id
        IN  (/\ NormalizeScore(job_matches[id].score) >= StoredThreshold(u)
             /\ job_matches[id].created_at < user_settings[u].last_digest_sent_at)
                => Digested(id)

====
